---- MODULE Spec2Model ----
(***************************************************************************)
(* RenderBuilder (src/render/factory.rs): the configuration setters, the   *)
(* six stages of build() and the steps of finish(), over a backend whose   *)
(* answers (adapter list, queue family support, compatible formats,        *)
(* Result values, backbuffer kind) are chosen nondeterministically at the  *)
(* call that asks for them.  A failed unwrap()/remove(0) is a panic: the   *)
(* run stops where it is (pc = "failed").                                  *)
(***************************************************************************)
EXTENDS Integers, Sequences, FiniteSets, TLC

\* ---------------------------------------------------------------- bounds
MaxAdapters == 2
MaxFormats == 2
MaxImages == 2
MaxShaderLen == 1
MaxSetterCalls == 2

\* ------------------------------------------------------------ Option<T>
None == [some |-> FALSE]
Some(v) == [some |-> TRUE, val |-> v]

\* --------------------------------------------------------------- inputs
Titles == {"", "demo"}
DefaultDimensions == <<720, 480>>
Dimensions == {DefaultDimensions, <<800, 600>>}
ShaderBytes == UNION {[1..n -> {7}] : n \in 0..MaxShaderLen}

Formats == {"Rgba8Srgb", "Bgra8Srgb", "Rgba8Unorm"}
\* format.base_format().1
ChannelTypeOf(format) == IF format \in {"Rgba8Srgb", "Bgra8Srgb"} THEN "Srgb" ELSE "Unorm"
\* the Option<Vec<Format>> of Surface::compatibility
FormatAnswers == {None} \cup {Some(l) : l \in UNION {[1..n -> Formats] : n \in 0..MaxFormats}}
\* the SurfaceCapabilities of Surface::compatibility
CapsAnswers == {[extent |-> d] : d \in Dimensions}
\* the Backbuffer of create_swapchain
BackbufferAnswers == {[kind |-> "Images", images |-> n] : n \in 0..MaxImages}
                     \cup {[kind |-> "Framebuffer", images |-> 0]}

VARIABLES
  self,            \* the RenderBuilder's fields
  loc,             \* the locals of finish()
  ctx,             \* the RenderContext build() returned, if any
  pc,              \* "config", a stage or step of build(), "done" or "failed"
  failStep,        \* the call that panicked, "none" until then
  trace,           \* the stages started so far, in order
  lastCall,        \* the argument of the last call of each setter
  setCalls,        \* number of calls of each setter so far
  adapters,        \* length of the list enumerate_adapters() returned, -1 before
  formats          \* the format list compatibility() returned, None before

vars == <<self, loc, ctx, pc, failStep, trace, lastCall, setCalls, adapters, formats>>

ResourceFields == {"instance", "events_loop", "window", "surface", "adapter", "caps",
                   "surface_color_format", "device", "queue_group", "command_pool",
                   "render_pass"}
ConfigFields == {"title", "dimensions", "vertex_shader", "fragment_shader"}
LocalFields == {"pipeline_layout", "vertex_shader_mod", "fragment_shader_mod", "pipeline",
                "swapchain", "backbuffer", "image_views", "frame_buffers",
                "frame_semaphore", "frame_fence"}

\* Default with the window size of another preset
Default_other_dimensions ==
  [instance |-> None, device |-> None, events_loop |-> None, window |-> None,
   surface |-> None, queue_group |-> None, command_pool |-> None, render_pass |-> None,
   vertex_shader |-> <<>>, fragment_shader |-> <<>>, title |-> "",
   dimensions |-> <<800, 600>>, surface_color_format |-> None,
   adapter |-> None, caps |-> None]

\* impl Default for RenderBuilder
Default ==
  [instance |-> None, device |-> None, events_loop |-> None, window |-> None,
   surface |-> None, queue_group |-> None, command_pool |-> None, render_pass |-> None,
   vertex_shader |-> <<>>, fragment_shader |-> <<>>, title |-> "",
   dimensions |-> DefaultDimensions, surface_color_format |-> None,
   adapter |-> None, caps |-> None]

\* RenderBuilder::new
new == Default

Init ==
  /\ self = new
  /\ loc = [f \in LocalFields |-> None]
  /\ ctx = None
  /\ pc = "config"
  /\ failStep = "none"
  /\ trace = <<>>
  /\ lastCall = [title |-> "", dimensions |-> DefaultDimensions,
                 vertex_shader |-> <<>>, fragment_shader |-> <<>>]
  /\ setCalls = [f \in ConfigFields |-> 0]
  /\ adapters = -1
  /\ formats = None

\* ------------------------------------------------------------- setters
TotalCalls ==
  setCalls.title + setCalls.dimensions + setCalls.vertex_shader + setCalls.fragment_shader

SetterFrame == UNCHANGED <<loc, ctx, pc, failStep, trace, adapters, formats>>

with_vertex_shader ==
  /\ pc = "config" /\ TotalCalls < MaxSetterCalls
  /\ \E vertex_shader \in ShaderBytes :
       /\ self' = [self EXCEPT !.vertex_shader = vertex_shader]
       /\ lastCall' = [lastCall EXCEPT !.vertex_shader = vertex_shader]
  /\ setCalls' = [setCalls EXCEPT !.vertex_shader = @ + 1]
  /\ SetterFrame

with_fragment_shader ==
  /\ pc = "config" /\ TotalCalls < MaxSetterCalls
  /\ \E fragment_shader \in ShaderBytes :
       /\ self' = [self EXCEPT !.fragment_shader = fragment_shader]
       /\ lastCall' = [lastCall EXCEPT !.fragment_shader = fragment_shader]
  /\ setCalls' = [setCalls EXCEPT !.fragment_shader = @ + 1]
  /\ SetterFrame

\* with_title that also puts the dimensions back to the default
with_title_resets_dimensions ==
  /\ pc = "config" /\ TotalCalls < MaxSetterCalls
  /\ \E title \in Titles :
       /\ self' = [self EXCEPT !.title = title, !.dimensions = DefaultDimensions]
       /\ lastCall' = [lastCall EXCEPT !.title = title]
  /\ setCalls' = [setCalls EXCEPT !.title = @ + 1]
  /\ SetterFrame

with_title ==
  /\ pc = "config" /\ TotalCalls < MaxSetterCalls
  /\ \E title \in Titles :
       /\ self' = [self EXCEPT !.title = title]
       /\ lastCall' = [lastCall EXCEPT !.title = title]
  /\ setCalls' = [setCalls EXCEPT !.title = @ + 1]
  /\ SetterFrame

with_dimensions ==
  /\ pc = "config" /\ TotalCalls < MaxSetterCalls
  /\ \E dimensions \in Dimensions :
       /\ self' = [self EXCEPT !.dimensions = dimensions]
       /\ lastCall' = [lastCall EXCEPT !.dimensions = dimensions]
  /\ setCalls' = [setCalls EXCEPT !.dimensions = @ + 1]
  /\ SetterFrame

\* --------------------------------------------------------------- build
\* build() with the device stage called before the window stage
BuildOrder_device_first ==
  <<"build_instance", "build_device_and_queue_group_and_surface",
    "build_window_and_events_loop", "build_command_pool",
    "build_render_pass", "finish">>

\* the order in which build() calls the stages
BuildOrder ==
  <<"build_instance", "build_window_and_events_loop",
    "build_device_and_queue_group_and_surface", "build_command_pool",
    "build_render_pass", "finish">>

\* the stage build() calls after stage s
StageAfter(s) ==
  LET i == CHOOSE k \in 1..Len(BuildOrder) : BuildOrder[k] = s
  IN IF i < Len(BuildOrder) THEN BuildOrder[i + 1] ELSE "done"

\* a failed call that is tried again instead of ending the run
Panic_retry(step, s) ==
  /\ pc' = pc
  /\ failStep' = step
  /\ self' = s

\* a failed call that releases what the builder holds before ending the run
Panic_cleanup(step, s) ==
  /\ pc' = "failed"
  /\ failStep' = step
  /\ self' = [f \in DOMAIN s |-> IF f \in ResourceFields THEN None ELSE s[f]]

\* a failed unwrap() or remove(0): the thread panics at that call, with the
\* builder as the statements before the call left it (s)
Panic(step, s) ==
  /\ pc' = "failed"
  /\ failStep' = step
  /\ self' = s

\* build() is entered; the builder is moved into it, so no setter runs later
build ==
  /\ pc = "config"
  /\ pc' = BuildOrder[1]
  /\ UNCHANGED <<self, loc, ctx, failStep, trace, lastCall, setCalls, adapters, formats>>

build_instance ==
  /\ pc = "build_instance"
  /\ trace' = Append(trace, "build_instance")
  /\ self' = [self EXCEPT !.instance = Some([title |-> self.title, version |-> 1])]
  /\ pc' = StageAfter("build_instance")
  /\ UNCHANGED <<loc, ctx, failStep, lastCall, setCalls, adapters, formats>>

build_window_and_events_loop ==
  /\ pc = "build_window_and_events_loop"
  /\ trace' = Append(trace, "build_window_and_events_loop")
  /\ \E window_ok \in BOOLEAN :
       LET s1 == [self EXCEPT !.events_loop = Some([kind |-> "EventsLoop"])]
       IN IF window_ok
          THEN /\ self' = [s1 EXCEPT !.window =
                             Some([title |-> self.title, dimensions |-> self.dimensions])]
               /\ pc' = StageAfter("build_window_and_events_loop")
               /\ UNCHANGED failStep
          ELSE Panic("WindowBuilder::build", s1)
  /\ UNCHANGED <<loc, ctx, lastCall, setCalls, adapters, formats>>

\* choices.into_iter().find(|format| format.base_format().1 == ChannelType::Srgb)
RECURSIVE find_srgb(_)
find_srgb(choices) ==
  IF choices = <<>> THEN None
  ELSE IF ChannelTypeOf(Head(choices)) = "Srgb" THEN Some(Head(choices))
  ELSE find_srgb(Tail(choices))

\* the match that picks surface_color_format; None stands for the panic of
\* find(..).unwrap() on a list that holds no sRGB format
pick_color_format(answer) ==
  IF answer.some THEN find_srgb(answer.val) ELSE Some("Rgba8Srgb")

\* an adapter taken without looking at the length of the list
first_adapter_unchecked(n) ==
  Some([index |-> 0])

\* enumerate_adapters().remove(0) on a list of n adapters; None stands for
\* the panic of remove(0) on an empty Vec
first_adapter(n) ==
  IF n = 0 THEN None ELSE Some([index |-> 0])

build_device_and_queue_group_and_surface ==
  /\ pc = "build_device_and_queue_group_and_surface"
  /\ trace' = Append(trace, "build_device_and_queue_group_and_surface")
  /\ IF ~(self.instance.some /\ self.window.some)
     THEN /\ Panic("unwrap_none", self)
          /\ UNCHANGED <<adapters, formats>>
     ELSE \E n \in 0..MaxAdapters, open_ok \in BOOLEAN,
             caps \in CapsAnswers, answer \in FormatAnswers :
            LET s1 == [self EXCEPT !.surface =
                         Some([instance |-> self.instance.val, window |-> self.window.val])]
                adapter == first_adapter(n)
                s2 == [s1 EXCEPT !.adapter = adapter]
                s3 == [s2 EXCEPT !.caps = Some(caps)]
                picked == pick_color_format(answer)
            IN /\ adapters' = n
               /\ IF ~adapter.some
                  THEN /\ Panic("enumerate_adapters.remove(0)", s1)
                       /\ UNCHANGED formats
                  ELSE IF ~open_ok
                  THEN /\ Panic("open_with", s1)
                       /\ UNCHANGED formats
                  ELSE /\ formats' = Some(answer)
                       /\ IF ~picked.some
                          THEN Panic("find_srgb", s3)
                          ELSE /\ self' = [s3 EXCEPT
                                             !.surface_color_format = picked,
                                             !.device = Some([adapter |-> 0]),
                                             !.queue_group = Some([queues |-> 1])]
                               /\ pc' = StageAfter("build_device_and_queue_group_and_surface")
                               /\ UNCHANGED failStep
  /\ UNCHANGED <<loc, ctx, lastCall, setCalls>>

\* build_command_pool that opens a second queue group for the pool
build_command_pool_new_queue_group ==
  /\ pc = "build_command_pool"
  /\ trace' = Append(trace, "build_command_pool")
  /\ IF ~(self.device.some /\ self.queue_group.some)
     THEN Panic("unwrap_none", self)
     ELSE /\ self' = [self EXCEPT
                        !.queue_group = Some([queues |-> 2]),
                        !.command_pool =
                           Some([queue_group |-> [queues |-> 2], max_buffers |-> 16])]
          /\ pc' = StageAfter("build_command_pool")
          /\ UNCHANGED failStep
  /\ UNCHANGED <<loc, ctx, lastCall, setCalls, adapters, formats>>

build_command_pool ==
  /\ pc = "build_command_pool"
  /\ trace' = Append(trace, "build_command_pool")
  /\ IF ~(self.device.some /\ self.queue_group.some)
     THEN Panic("unwrap_none", self)
     ELSE /\ self' = [self EXCEPT !.command_pool =
                        Some([queue_group |-> self.queue_group.val, max_buffers |-> 16])]
          /\ pc' = StageAfter("build_command_pool")
          /\ UNCHANGED failStep
  /\ UNCHANGED <<loc, ctx, lastCall, setCalls, adapters, formats>>

build_render_pass ==
  /\ pc = "build_render_pass"
  /\ trace' = Append(trace, "build_render_pass")
  /\ IF ~(self.surface_color_format.some /\ self.device.some)
     THEN Panic("unwrap_none", self)
     ELSE /\ self' = [self EXCEPT !.render_pass =
                        Some([format |-> self.surface_color_format.val, samples |-> 1])]
          /\ pc' = StageAfter("build_render_pass")
          /\ UNCHANGED failStep
  /\ UNCHANGED <<loc, ctx, lastCall, setCalls, adapters, formats>>

\* ------------------------------------------------------------- finish
FinishFrame == UNCHANGED <<ctx, trace, lastCall, setCalls, adapters, formats>>

\* finish() that goes to the shader modules without a pipeline layout
finish_without_layout ==
  /\ pc = "finish"
  /\ trace' = Append(trace, "finish")
  /\ IF ~self.device.some
     THEN /\ Panic("unwrap_none", self)
          /\ UNCHANGED loc
     ELSE /\ pc' = "create_shader_vertex"
          /\ UNCHANGED <<self, loc, failStep>>
  /\ UNCHANGED <<ctx, lastCall, setCalls, adapters, formats>>

\* finish(), lines 208-212: the pipeline layout
finish ==
  /\ pc = "finish"
  /\ trace' = Append(trace, "finish")
  /\ IF ~self.device.some
     THEN /\ Panic("unwrap_none", self)
          /\ UNCHANGED loc
     ELSE /\ loc' = [loc EXCEPT !.pipeline_layout = Some([sets |-> 0, push_constants |-> 0])]
          /\ pc' = "create_shader_vertex"
          /\ UNCHANGED <<self, failStep>>
  /\ UNCHANGED <<ctx, lastCall, setCalls, adapters, formats>>

\* create_shader: device.create_shader_module(raw).unwrap(); whether the
\* device accepts the bytes is the backend's answer
create_shader(raw, module_ok) ==
  IF module_ok THEN Some([raw |-> raw]) ELSE None

finish_vertex_shader ==
  /\ pc = "create_shader_vertex"
  /\ \E module_ok \in BOOLEAN :
       LET m == create_shader(self.vertex_shader, module_ok)
       IN IF m.some
          THEN /\ loc' = [loc EXCEPT !.vertex_shader_mod = m]
               /\ pc' = "create_shader_fragment"
               /\ UNCHANGED <<self, failStep>>
          ELSE /\ Panic("create_shader_module(vertex)", self)
               /\ UNCHANGED loc
  /\ FinishFrame

finish_fragment_shader ==
  /\ pc = "create_shader_fragment"
  /\ \E module_ok \in BOOLEAN :
       LET m == create_shader(self.fragment_shader, module_ok)
       IN IF m.some
          THEN /\ loc' = [loc EXCEPT !.fragment_shader_mod = m]
               /\ pc' = "create_graphics_pipeline"
               /\ UNCHANGED <<self, failStep>>
          ELSE /\ Panic("create_shader_module(fragment)", self)
               /\ UNCHANGED loc
  /\ FinishFrame

finish_pipeline ==
  /\ pc = "create_graphics_pipeline"
  /\ IF ~self.render_pass.some
     THEN /\ Panic("unwrap_none", self)
          /\ UNCHANGED loc
     ELSE \E pipeline_ok \in BOOLEAN :
            IF pipeline_ok
            THEN /\ loc' = [loc EXCEPT !.pipeline =
                              Some([vertex |-> loc.vertex_shader_mod.val,
                                    fragment |-> loc.fragment_shader_mod.val,
                                    layout |-> loc.pipeline_layout.val,
                                    main_pass |-> self.render_pass.val])]
                 /\ pc' = "create_swapchain"
                 /\ UNCHANGED <<self, failStep>>
            ELSE /\ Panic("create_graphics_pipeline", self)
                 /\ UNCHANGED loc
  /\ FinishFrame

finish_swapchain ==
  /\ pc = "create_swapchain"
  /\ IF ~(self.caps.some /\ self.surface_color_format.some /\ self.surface.some)
     THEN /\ Panic("unwrap_none", self)
          /\ UNCHANGED loc
     ELSE \E backbuffer \in BackbufferAnswers :
            /\ loc' = [loc EXCEPT
                         !.swapchain = Some([extent |-> self.caps.val.extent,
                                             format |-> self.surface_color_format.val]),
                         !.backbuffer = Some(backbuffer)]
            /\ pc' = "create_views_and_frame_buffers"
            /\ UNCHANGED <<self, failStep>>
  /\ FinishFrame

\* the match on backbuffer with the ready-made framebuffer dropped
views_and_frame_buffers_drop_fbo(backbuffer, surface_color_format, render_pass, extent, fbo) ==
  IF backbuffer.kind = "Images"
  THEN LET image_views == [i \in 1..backbuffer.images |->
                             [image |-> i, format |-> surface_color_format]]
           frame_buffers == [i \in 1..Len(image_views) |->
                               [view |-> image_views[i], pass |-> render_pass,
                                extent |-> extent]]
       IN <<image_views, frame_buffers>>
  ELSE <<<<>>, <<>>>>

\* the match on backbuffer: (image_views, frame_buffers)
views_and_frame_buffers(backbuffer, surface_color_format, render_pass, extent, fbo) ==
  IF backbuffer.kind = "Images"
  THEN LET image_views == [i \in 1..backbuffer.images |->
                             [image |-> i, format |-> surface_color_format]]
           frame_buffers == [i \in 1..Len(image_views) |->
                               [view |-> image_views[i], pass |-> render_pass,
                                extent |-> extent]]
       IN <<image_views, frame_buffers>>
  ELSE <<<<>>, <<fbo>>>>

finish_views_and_frame_buffers ==
  /\ pc = "create_views_and_frame_buffers"
  /\ \E view_ok \in BOOLEAN, frame_buffer_ok \in BOOLEAN :
       LET backbuffer == loc.backbuffer.val
           made == backbuffer.kind = "Images" /\ backbuffer.images > 0
       IN IF made /\ ~view_ok
          THEN /\ Panic("create_image_view", self)
               /\ UNCHANGED loc
          ELSE IF made /\ ~self.render_pass.some
          THEN /\ Panic("unwrap_none", self)
               /\ UNCHANGED loc
          ELSE IF made /\ ~frame_buffer_ok
          THEN /\ Panic("create_framebuffer", self)
               /\ UNCHANGED loc
          ELSE LET r == views_and_frame_buffers(backbuffer, self.surface_color_format.val,
                                                self.render_pass.val,
                                                loc.swapchain.val.extent,
                                                [kind |-> "fbo"])
               IN /\ loc' = [loc EXCEPT !.image_views = Some(r[1]),
                                        !.frame_buffers = Some(r[2])]
                  /\ pc' = "create_sync_and_return"
                  /\ UNCHANGED <<self, failStep>>
  /\ FinishFrame

\* the RenderContext literal of finish(), lines 317-332
RenderContext(s, l) ==
  [instance |-> s.instance.val, device |-> s.device.val,
   events_loop |-> s.events_loop.val, window |-> s.window.val,
   surface |-> s.surface.val, queue_group |-> s.queue_group.val,
   command_pool |-> s.command_pool.val, render_pass |-> s.render_pass.val,
   pipeline |-> l.pipeline.val, swapchain |-> l.swapchain.val,
   image_views |-> l.image_views.val, frame_buffers |-> l.frame_buffers.val,
   frame_semaphore |-> l.frame_semaphore.val, frame_fence |-> l.frame_fence.val]

ContextUnwraps == {"instance", "device", "events_loop", "window", "surface",
                   "queue_group", "command_pool", "render_pass"}

finish_sync_and_return ==
  /\ pc = "create_sync_and_return"
  /\ LET l1 == [loc EXCEPT !.frame_semaphore = Some([signaled |-> FALSE]),
                           !.frame_fence = Some([signaled |-> FALSE])]
     IN /\ loc' = l1
        /\ IF \E f \in ContextUnwraps : ~self[f].some
           THEN /\ Panic("unwrap_none", self)
                /\ UNCHANGED ctx
           ELSE /\ ctx' = Some(RenderContext(self, l1))
                /\ pc' = "done"
                /\ UNCHANGED <<self, failStep>>
  /\ UNCHANGED <<trace, lastCall, setCalls, adapters, formats>>

Next ==
  \/ with_vertex_shader
  \/ with_fragment_shader
  \/ with_title
  \/ with_dimensions
  \/ build
  \/ build_instance
  \/ build_window_and_events_loop
  \/ build_device_and_queue_group_and_surface
  \/ build_command_pool
  \/ build_render_pass
  \/ finish
  \/ finish_vertex_shader
  \/ finish_fragment_shader
  \/ finish_pipeline
  \/ finish_swapchain
  \/ finish_views_and_frame_buffers
  \/ finish_sync_and_return

Spec == Init /\ [][Next]_vars

\* ------------------------------------------------------------ properties
IsPrefix(a, b) == Len(a) <= Len(b) /\ a = SubSeq(b, 1, Len(a))

ExpectedOrder ==
  <<"build_instance", "build_window_and_events_loop",
    "build_device_and_queue_group_and_surface", "build_command_pool",
    "build_render_pass", "finish">>

FinishSteps == {"create_shader_vertex", "create_shader_fragment", "create_graphics_pipeline",
                "create_swapchain", "create_views_and_frame_buffers",
                "create_sync_and_return"}

\* the builder fields the step at position p unwraps
Reads(p) ==
  CASE p = "build_device_and_queue_group_and_surface" -> {"instance", "window"}
    [] p = "build_command_pool" -> {"device", "queue_group"}
    [] p = "build_render_pass" -> {"surface_color_format", "device"}
    [] p \in {"finish", "create_shader_vertex", "create_shader_fragment"} -> {"device"}
    [] p = "create_graphics_pipeline" -> {"device", "render_pass"}
    [] p = "create_swapchain" -> {"device", "caps", "surface_color_format", "surface"}
    [] p = "create_views_and_frame_buffers" -> {"device", "render_pass"}
    [] p = "create_sync_and_return" -> ContextUnwraps
    [] OTHER -> {}

Held == {f \in ResourceFields : self[f].some}
LocalsHeld == {f \in LocalFields : loc[f].some}

\* C1: the stages of build() start in the fixed order instance, window/event
\* loop, device/queue/surface, command pool, render pass, finish, and every
\* builder field a stage or step unwraps was set by an earlier stage: no
\* unwrap of an unset field ever panics.
C1_StagesInOrderReadSetFields ==
  /\ IsPrefix(trace, ExpectedOrder)
  /\ pc \in FinishSteps \cup {"done"} => trace = ExpectedOrder
  /\ \A f \in Reads(pc) : self[f].some
  /\ failStep # "unwrap_none"

C1_Witness ==
  pc = "done" /\ trace = ExpectedOrder /\ Held = ResourceFields

\* the format the claim C2 expects for a compatible-format answer
ExpectedFormat(answer) ==
  LET srgb == IF answer.some
              THEN {i \in 1..Len(answer.val) : ChannelTypeOf(answer.val[i]) = "Srgb"}
              ELSE {}
  IN IF srgb # {}
     THEN answer.val[CHOOSE i \in srgb : \A j \in srgb : i <= j]
     ELSE "Rgba8Srgb"

\* C2: for every compatible-format answer (no list, an empty list, a list
\* without an sRGB format, a list with sRGB formats), once the surface has
\* answered, surface_color_format is the first sRGB format of the list if
\* there is one and the default Rgba8Srgb otherwise.
C2_FirstSrgbOrDefault ==
  formats.some => self.surface_color_format = Some(ExpectedFormat(formats.val))

\* C3 as claimed: a returned context has as many framebuffers as image views
\* when it has image views, and at least one framebuffer when it has none.
C3_Original ==
  ctx.some =>
    /\ ctx.val.image_views # <<>> =>
         Len(ctx.val.image_views) = Len(ctx.val.frame_buffers)
    /\ ctx.val.image_views = <<>> => Len(ctx.val.frame_buffers) >= 1

\* C3 (amended): a returned context built from raw backbuffer images has one
\* image view and one framebuffer per image (both empty for zero images); one
\* built from a ready-made framebuffer has no image view and that one
\* framebuffer.
C3_ViewsAndFrameBuffersPerBackbuffer ==
  ctx.some =>
    LET backbuffer == loc.backbuffer.val
    IN /\ backbuffer.kind = "Images" =>
            /\ Len(ctx.val.image_views) = backbuffer.images
            /\ Len(ctx.val.frame_buffers) = Len(ctx.val.image_views)
            /\ \A i \in 1..backbuffer.images :
                 ctx.val.frame_buffers[i].view = ctx.val.image_views[i]
       /\ backbuffer.kind = "Framebuffer" =>
            /\ ctx.val.image_views = <<>>
            /\ Len(ctx.val.frame_buffers) = 1

C3_Witness ==
  /\ ctx.some
  /\ loc.backbuffer.val.kind = "Images"
  /\ ctx.val.image_views = <<>>
  /\ ctx.val.frame_buffers = <<>>

\* C4: when the backend reports an empty adapter list, build() has failed in
\* the device/queue/surface stage: no command pool, render pass or resource
\* of finish() exists and no context is returned.
C4_EmptyAdapterListFailsAtDeviceStage ==
  adapters = 0 =>
    /\ pc = "failed"
    /\ failStep = "enumerate_adapters.remove(0)"
    /\ trace = SubSeq(ExpectedOrder, 1, 3)
    /\ ~self.command_pool.some /\ ~self.render_pass.some
    /\ LocalsHeld = {}
    /\ ctx = None

C4_Witness ==
  adapters = 0 /\ pc = "failed" /\ self.surface.some

\* C5 as claimed: with empty vertex or fragment bytecode the run does not get
\* past the creation of the two shader modules.
C5_Original ==
  (self.vertex_shader = <<>> \/ self.fragment_shader = <<>>) =>
    ~(loc.vertex_shader_mod.some /\ loc.fragment_shader_mod.some)

\* C5 (amended): the setters accept any bytecode, empty included, and the
\* bytecode reaches the device unexamined; when the device rejects the vertex
\* or the fragment bytecode, build() fails at that shader module: the five
\* stages and the pipeline layout are done, and no pipeline, swapchain, image
\* view, framebuffer, semaphore, fence or context exists.
C5_FailsAtShaderModuleWhenRejected ==
  /\ pc = "config" => failStep = "none"
  /\ loc.vertex_shader_mod.some => loc.vertex_shader_mod.val.raw = self.vertex_shader
  /\ loc.fragment_shader_mod.some => loc.fragment_shader_mod.val.raw = self.fragment_shader
  /\ failStep \in {"create_shader_module(vertex)", "create_shader_module(fragment)"} =>
       /\ pc = "failed"
       /\ trace = ExpectedOrder
       /\ Held = ResourceFields
       /\ loc.pipeline_layout.some
       /\ LocalsHeld \subseteq {"pipeline_layout", "vertex_shader_mod"}
       /\ loc.vertex_shader_mod.some <=> failStep = "create_shader_module(fragment)"
       /\ ctx = None

C5_Witness ==
  /\ failStep = "create_shader_module(fragment)"
  /\ self.fragment_shader = <<>>
  /\ self.vertex_shader # <<>>

ContextFields == {"instance", "device", "events_loop", "window", "surface", "queue_group",
                  "command_pool", "render_pass", "pipeline", "swapchain", "image_views",
                  "frame_buffers", "frame_semaphore", "frame_fence"}

\* C6: build() is all-or-nothing: a context exists exactly when every stage
\* succeeded, and then it has all fourteen fields, each holding the resource
\* the builder made; a failed call ends the run at once and for good, with
\* no context and no further step.
C6_AllOrNothing ==
  /\ [](ctx.some <=> pc = "done")
  /\ [](ctx.some =>
          /\ DOMAIN ctx.val = ContextFields
          /\ \A f \in ContextUnwraps : Some(ctx.val[f]) = self[f]
          /\ \A f \in ContextFields \ ContextUnwraps : Some(ctx.val[f]) = loc[f]
          /\ failStep = "none")
  /\ [](failStep # "none" <=> pc = "failed")
  /\ [][pc = "failed" => UNCHANGED vars]_vars

C6_Witness ==
  pc = "failed" /\ failStep = "create_framebuffer" /\ ctx = None /\ loc.swapchain.some

\* C7: whatever setters were called before build(), each stage uses the
\* argument of the last call of the matching setter (the default if there was
\* none); a setter call changes its own field only.
C7_LastSetValueUsed ==
  /\ [](\A f \in ConfigFields : self[f] = lastCall[f])
  /\ [](self.instance.some => self.instance.val.title = lastCall.title)
  /\ [](self.window.some =>
          /\ self.window.val.title = lastCall.title
          /\ self.window.val.dimensions = lastCall.dimensions)
  /\ [](loc.vertex_shader_mod.some => loc.vertex_shader_mod.val.raw = lastCall.vertex_shader)
  /\ [](loc.fragment_shader_mod.some =>
          loc.fragment_shader_mod.val.raw = lastCall.fragment_shader)
  /\ [][pc' = "config" =>
          /\ \A f \in ConfigFields : setCalls'[f] = setCalls[f] => self'[f] = self[f]
          /\ \A f \in ResourceFields : self'[f] = self[f]
          /\ loc' = loc]_vars

C7_Witness ==
  /\ pc = "done"
  /\ setCalls.title = 2
  /\ ctx.val.instance.title = "demo"
  /\ ctx.val.window.title = "demo"

\* the calls whose answer by the backend can end build()
BackendSteps ==
  {"WindowBuilder::build", "enumerate_adapters.remove(0)", "open_with", "find_srgb",
   "create_shader_module(vertex)", "create_shader_module(fragment)",
   "create_graphics_pipeline", "create_image_view", "create_framebuffer"}

AssignmentOrder ==
  <<{"instance"}, {"events_loop"}, {"window"}, {"surface"}, {"adapter"}, {"caps"},
    {"surface_color_format", "device", "queue_group"}, {"command_pool"}, {"render_pass"}>>

\* C9: during build() a resource field of the builder, once set, keeps its
\* value; the fields become set in dependency order; a finished build has
\* set all of them; no stage changes title, dimensions or shader bytes.
C9_SingleAssignment ==
  /\ [][\A f \in ResourceFields : self[f].some => self'[f] = self[f]]_vars
  /\ [][pc # "config" => \A f \in ConfigFields : self'[f] = self[f]]_vars
  /\ [](\A i, j \in 1..Len(AssignmentOrder) :
          (i < j /\ AssignmentOrder[j] \cap Held # {}) => AssignmentOrder[i] \subseteq Held)
  /\ [](pc \in {"config", "build_instance"} => Held = {})
  /\ [](pc = "done" => Held = ResourceFields)

C9_Witness ==
  pc = "build_render_pass" /\ self.command_pool.some /\ ~self.render_pass.some

\* the builder fields set when the call at step panics
HeldAt(step) ==
  CASE step = "WindowBuilder::build" -> {"instance", "events_loop"}
    [] step \in {"enumerate_adapters.remove(0)", "open_with"} ->
         {"instance", "events_loop", "window", "surface"}
    [] step = "find_srgb" ->
         {"instance", "events_loop", "window", "surface", "adapter", "caps"}
    [] OTHER -> ResourceFields

\* the locals of finish() set when the call at step panics
LocalsHeldAt(step) ==
  CASE step = "create_shader_module(vertex)" -> {"pipeline_layout"}
    [] step = "create_shader_module(fragment)" -> {"pipeline_layout", "vertex_shader_mod"}
    [] step = "create_graphics_pipeline" ->
         {"pipeline_layout", "vertex_shader_mod", "fragment_shader_mod"}
    [] step \in {"create_image_view", "create_framebuffer"} ->
         {"pipeline_layout", "vertex_shader_mod", "fragment_shader_mod", "pipeline",
          "swapchain", "backbuffer"}
    [] OTHER -> {}

====
